---------------------------- MODULE Spec2Model ----------------------------
(***************************************************************************)
(* Model of the fetcher orchestration of paramify/evidence-fetchers:       *)
(*   3-run-fetchers/run_fetchers.py  (multi-instance orchestrator)         *)
(*   3-run-fetchers/main_fetcher.py  (per-provider orchestrator)           *)
(*                                                                         *)
(* Strings are sequences of tokens (a token is a TLA+ string): the name    *)
(* s3_mfa_delete_region_1 is <<"s3_mfa_delete","_","region","_","1">>.     *)
(* Python dicts are sequences of [k, v] records with pairwise distinct     *)
(* keys, in insertion order.                                               *)
(***************************************************************************)
EXTENDS Integers, Sequences, FiniteSets, TLC

VARIABLES
    prog,               \* entry point being run: "run_fetchers" or "main_fetcher"
    pc,                 \* position of main(): "start","confirm","run","done","crashed"
    env,                \* os.environ, in iteration order
    catalog,            \* evidence_sets["evidence_sets"]: fetcher name -> script_data
    multi_config,       \* result of parse_multi_instance_config()
    instances,          \* result of create_fetcher_instances()
    uncovered,          \* sorted(uncovered_fetchers)
    timeout,            \* timeout handed to subprocess.run (NoTimeout: none)
    idx,                \* index of the next instance / script to run
    child,              \* the child process subprocess.run is blocked on, or NoChild
    results,            \* run_fetchers: dict instance name -> success bool
    instance_info_map,  \* run_fetchers: dict instance name -> instance
    target,             \* the provider, profile and region main() resolved for the run
    scripts,            \* main_fetcher: get_provider_scripts(provider)
    mfResults,          \* main_fetcher: list of result records
    dirCreated,         \* the evidence directory exists
    files,              \* stems of the *.json files of the evidence directory, in listing order
    written,            \* every summary.json written so far, oldest first
    ran,                \* history: one record per instance attempted (what its child did)
    exitCode            \* process exit status once main() has returned or died

vars == <<prog, pc, env, catalog, multi_config, instances, uncovered, timeout, idx,
          child, results, instance_info_map, target, scripts, mfResults, dirCreated,
          files, written, ran, exitCode>>

--------------------------------------------------------------------------
(* Bounds of the model *)

\* longest environment explored by the expansion specification
MaxEnvLen == 3
\* number of files one child may write before it ends
MaxWrites == 1
\* longest script list of a provider directory (main_fetcher)
MaxScripts == 2

--------------------------------------------------------------------------
(* Strings *)

Digits == {"0", "1", "2"}

Concat(a, b) == a \o b

\* str.startswith
StartsWith(s, p) == Len(p) <= Len(s) /\ SubSeq(s, 1, Len(p)) = p

\* code-point order of the first characters of the tokens
TokRank(t) ==
    CASE t \in Digits -> 1
      [] t \in {"AWS", "A", "B", "FETCHER", "GITLAB"} -> 2
      [] t = "_" -> 3
      [] t = "a" -> 4
      [] t = "b" -> 5
      [] t = "mary" -> 6
      [] t = "project" -> 7
      [] t = "region" -> 8
      [] t = "s3_mfa_delete" -> 9
      [] t = "sum" -> 10
      [] OTHER -> 11

RECURSIVE StrLess(_, _)
\* a < b for Python strings
StrLess(a, b) ==
    IF a = <<>> THEN b # <<>>
    ELSE IF b = <<>> THEN FALSE
    ELSE IF Head(a) = Head(b) THEN StrLess(Tail(a), Tail(b))
    ELSE TokRank(Head(a)) < TokRank(Head(b))

RECURSIVE sorted(_)
\* sorted(set of strings)
sorted(S) ==
    IF S = {} THEN <<>>
    ELSE LET m == CHOOSE x \in S : \A y \in S : x = y \/ StrLess(x, y)
         IN  <<m>> \o sorted(S \ {m})

\* the tokens that have an upper-case and a lower-case form: <<form, lower, upper>>
CaseTable ==
    { <<"FETCHERS", "fetchers", "FETCHERS">>, <<"Fetchers", "fetchers", "FETCHERS">>,
      <<"fetchers", "fetchers", "FETCHERS">>,
      <<"URL", "url", "URL">>, <<"url", "url", "URL">>,
      <<"API", "api", "API">>, <<"api", "api", "API">>,
      <<"ACCESS", "access", "ACCESS">>, <<"access", "access", "ACCESS">>,
      <<"TOKEN", "token", "TOKEN">>, <<"token", "token", "TOKEN">>,
      <<"ID", "id", "ID">>, <<"id", "id", "ID">>,
      <<"REGION", "region", "REGION">>, <<"region", "region", "REGION">>,
      <<"PROFILE", "profile", "PROFILE">>, <<"profile", "profile", "PROFILE">>,
      <<"PROJECT", "project", "PROJECT">>, <<"project", "project", "PROJECT">>,
      <<"BRANCH", "branch", "BRANCH">>, <<"branch", "branch", "BRANCH">>,
      <<"A", "a", "A">>, <<"a", "a", "A">>,
      <<"B", "b", "B">>, <<"b", "b", "B">>,
      <<"Y", "y", "Y">>, <<"y", "y", "Y">>,
      <<"S3_MFA_DELETE", "s3_mfa_delete", "S3_MFA_DELETE">>,
      <<"s3_mfa_delete", "s3_mfa_delete", "S3_MFA_DELETE">> }

TokLower(t) ==
    IF \E c \in CaseTable : c[1] = t THEN (CHOOSE c \in CaseTable : c[1] = t)[2] ELSE t

TokUpper(t) ==
    IF \E c \in CaseTable : c[1] = t THEN (CHOOSE c \in CaseTable : c[1] = t)[3] ELSE t

\* str.lower
lower(s) == [i \in 1..Len(s) |-> TokLower(s[i])]

\* str.upper
upper(s) == [i \in 1..Len(s) |-> TokUpper(s[i])]

RECURSIVE split(_, _)
\* str.split(sep): always at least one piece
split(s, sep) ==
    IF \E i \in 1..Len(s) : s[i] = sep
    THEN LET i == CHOOSE j \in 1..Len(s) : s[j] = sep /\ \A h \in 1..(j-1) : s[h] # sep
         IN  <<SubSeq(s, 1, i-1)>> \o split(SubSeq(s, i+1, Len(s)), sep)
    ELSE <<s>>

RECURSIVE strip(_)
\* str.strip
strip(s) ==
    IF s # <<>> /\ Head(s) = " " THEN strip(Tail(s))
    ELSE IF s # <<>> /\ s[Len(s)] = " " THEN strip(SubSeq(s, 1, Len(s)-1))
    ELSE s

\* number of leading digit tokens
LeadingDigits(s) ==
    IF \E i \in 1..Len(s) : s[i] \notin Digits
    THEN (CHOOSE i \in 1..Len(s) : s[i] \notin Digits /\ \A h \in 1..(i-1) : s[h] \in Digits) - 1
    ELSE Len(s)

\* re.compile(r'^<prefix>(\d+)_(.+)$').match(key): [ok, num, key]
GroupMatch(prefix, key) ==
    IF Len(key) > Len(prefix) /\ StartsWith(key, prefix)
    THEN LET rest == SubSeq(key, Len(prefix)+1, Len(key))
             d    == LeadingDigits(rest)
         IN  IF d >= 1 /\ Len(rest) >= d + 2 /\ rest[d+1] = "_"
             THEN [ok |-> TRUE, num |-> SubSeq(rest, 1, d),
                   key |-> SubSeq(rest, d+2, Len(rest))]
             ELSE [ok |-> FALSE, num |-> <<>>, key |-> <<>>]
    ELSE [ok |-> FALSE, num |-> <<>>, key |-> <<>>]

\* re.sub(r'_(project|region)_\d+$', '', name)
StripInstanceSuffix(name) ==
    LET n == Len(name)
        \* the longest run of digits that ends the name
        d == LeadingDigits([i \in 1..n |-> name[n + 1 - i]])
    IN  IF d >= 1 /\ n >= d + 3 /\ name[n-d] = "_" /\ name[n-d-1] \in {"project", "region"}
           /\ name[n-d-2] = "_"
        THEN SubSeq(name, 1, n-d-3)
        ELSE name

--------------------------------------------------------------------------
(* Python dicts *)

Keys(d) == {d[i].k : i \in 1..Len(d)}

Has(d, key) == key \in Keys(d)

\* d[key]; a missing key raises KeyError
PyKeyError == <<"<KeyError>">>
Get(d, key) == IF Has(d, key) THEN d[CHOOSE i \in 1..Len(d) : d[i].k = key].v ELSE PyKeyError

GetOr(d, key, default) == IF Has(d, key) THEN Get(d, key) ELSE default

\* Put keeping the value a key already has
Put_KeepFirst(d, key, value) ==
    IF Has(d, key) THEN d ELSE Append(d, [k |-> key, v |-> value])

\* d[key] = value
Put(d, key, value) ==
    IF Has(d, key)
    THEN [i \in 1..Len(d) |-> IF d[i].k = key THEN [k |-> key, v |-> value] ELSE d[i]]
    ELSE Append(d, [k |-> key, v |-> value])

\* {k: v for k, v in d.items() if k not in excluded}
Without(d, excluded) == SelectSeq(d, LAMBDA e : e.k \notin excluded)

RECURSIVE Flatten(_)
Flatten(ss) == IF ss = <<>> THEN <<>> ELSE Head(ss) \o Flatten(Tail(ss))


--------------------------------------------------------------------------
(* run_fetchers.py: expansion of the environment into instances *)

GITLAB_PREFIX == <<"GITLAB", "_", "PROJECT", "_">>
AWS_PREFIX    == <<"AWS", "_", "REGION", "_">>

GITLAB_MANDATORY == {<<"url">>, <<"api", "_", "access", "_", "token">>, <<"id">>, <<"fetchers">>}
AWS_MANDATORY    == {<<"fetchers">>}
AWS_KNOWN        == {<<"region">>, <<"profile">>, <<"fetchers">>}

RECURSIVE ScanGroups(_, _, _)
\* the dict num -> {config_key: value} built by scanning e[1..i] against a pattern
ScanGroups(prefix, e, i) ==
    IF i = 0 THEN <<>>
    ELSE LET prev == ScanGroups(prefix, e, i - 1)
             m    == GroupMatch(prefix, e[i].k)
         IN  IF m.ok
             THEN Put(prev, m.num, Put(GetOr(prev, m.num, <<>>), lower(m.key), e[i].v))
             ELSE prev

\* [f.strip() for f in value.split(',')]
FetcherList(value) ==
    LET parts == split(value, ",") IN [i \in 1..Len(parts) |-> strip(parts[i])]

GitlabProject(g) ==
    [name       |-> <<"project", "_">> \o g.k,
     url        |-> Get(g.v, <<"url">>),
     token      |-> Get(g.v, <<"api", "_", "access", "_", "token">>),
     project_id |-> Get(g.v, <<"id">>),
     fetchers   |-> FetcherList(Get(g.v, <<"fetchers">>)),
     config     |-> Without(g.v, GITLAB_MANDATORY)]

\* AwsRegion taking the group index for the region even when REGION is set
AwsRegion_IndexAsRegion(g, e) ==
    [name     |-> <<"region", "_">> \o g.k,
     region   |-> g.k,
     profile  |-> GetOr(g.v, <<"profile">>, GetOr(e, <<"AWS", "_", "PROFILE">>, <<>>)),
     fetchers |-> FetcherList(Get(g.v, <<"fetchers">>)),
     config   |-> Without(g.v, AWS_KNOWN)]

AwsRegion(g, e) ==
    [name     |-> <<"region", "_">> \o g.k,
     region   |-> GetOr(g.v, <<"region">>, g.k),
     profile  |-> GetOr(g.v, <<"profile">>, GetOr(e, <<"AWS", "_", "PROFILE">>, <<>>)),
     fetchers |-> FetcherList(Get(g.v, <<"fetchers">>)),
     config   |-> Without(g.v, AWS_KNOWN)]

\* GroupValid asking for the fetchers key only, whatever the prefix
GroupValid_FetchersOnly(g, mandatory) == <<"fetchers">> \in Keys(g.v)

\* all(key in group for key in mandatory)
GroupValid(g, mandatory) == mandatory \subseteq Keys(g.v)

parse_multi_instance_config(e) ==
    LET gitlab_projects == ScanGroups(GITLAB_PREFIX, e, Len(e))
        aws_regions     == ScanGroups(AWS_PREFIX, e, Len(e))
        okProjects == SelectSeq(gitlab_projects, LAMBDA g : GroupValid(g, GITLAB_MANDATORY))
        okRegions  == SelectSeq(aws_regions, LAMBDA g : GroupValid(g, AWS_MANDATORY))
    IN  [gitlab_projects |-> [i \in 1..Len(okProjects) |-> GitlabProject(okProjects[i])],
         aws_regions     |-> [i \in 1..Len(okRegions) |-> AwsRegion(okRegions[i], e)]]

RECURSIVE Overrides(_, _, _)
\* for key, value in extra.items(): config[f"<PROVIDER>_{key.upper()}"] = value
Overrides(config, providerPrefix, extra) ==
    IF extra = <<>> THEN config
    ELSE Overrides(Put(config, providerPrefix \o upper(Head(extra).k), Head(extra).v),
                   providerPrefix, Tail(extra))

GitlabInstance(project, fetcher_name, cat) ==
    [script_name   |-> fetcher_name,
     script_data   |-> Get(cat, fetcher_name),
     instance_name |-> fetcher_name \o <<"_">> \o project.name,
     provider      |-> "gitlab",
     config        |-> Overrides(
         << [k |-> <<"GITLAB", "_", "URL">>, v |-> project.url],
            [k |-> <<"GITLAB", "_", "API", "_", "TOKEN">>, v |-> project.token],
            [k |-> <<"GITLAB", "_", "PROJECT", "_", "ID">>, v |-> project.project_id] >>,
         <<"GITLAB", "_">>, project.config)]

\* AwsInstance named after the region's value instead of the group
AwsInstance_NamedByRegion(region, fetcher_name, cat) ==
    [script_name   |-> fetcher_name,
     script_data   |-> Get(cat, fetcher_name),
     instance_name |-> fetcher_name \o <<"_">> \o region.region,
     provider      |-> "aws",
     config        |-> Overrides(
         << [k |-> <<"AWS", "_", "PROFILE">>, v |-> region.profile],
            [k |-> <<"AWS", "_", "REGION">>, v |-> region.region] >>,
         <<"AWS", "_">>, region.config)]

AwsInstance(region, fetcher_name, cat) ==
    [script_name   |-> fetcher_name,
     script_data   |-> Get(cat, fetcher_name),
     instance_name |-> fetcher_name \o <<"_">> \o region.name,
     provider      |-> "aws",
     config        |-> Overrides(
         << [k |-> <<"AWS", "_", "PROFILE">>, v |-> region.profile],
            [k |-> <<"AWS", "_", "REGION">>, v |-> region.region] >>,
         <<"AWS", "_">>, region.config)]

\* InCatalog looking at the first name of the list only
InCatalog_FirstOnly(group, cat) ==
    SelectSeq(SubSeq(group.fetchers, 1, 1), LAMBDA f : Has(cat, f))

\* the fetchers of a group that are in the catalog, in list order
InCatalog(group, cat) == SelectSeq(group.fetchers, LAMBDA f : Has(cat, f))

\* create_fetcher_instances handling the AWS regions before the GitLab projects
create_fetcher_instances_AwsFirst(cat, mc) ==
    LET perProject == [i \in 1..Len(mc.gitlab_projects) |->
                        LET p == mc.gitlab_projects[i]
                            fs == InCatalog(p, cat)
                        IN  [j \in 1..Len(fs) |-> GitlabInstance(p, fs[j], cat)]]
        perRegion  == [i \in 1..Len(mc.aws_regions) |->
                        LET r == mc.aws_regions[i]
                            fs == InCatalog(r, cat)
                        IN  [j \in 1..Len(fs) |-> AwsInstance(r, fs[j], cat)]]
    IN  Flatten(perRegion) \o Flatten(perProject)

create_fetcher_instances(cat, mc) ==
    LET perProject == [i \in 1..Len(mc.gitlab_projects) |->
                        LET p == mc.gitlab_projects[i]
                            fs == InCatalog(p, cat)
                        IN  [j \in 1..Len(fs) |-> GitlabInstance(p, fs[j], cat)]]
        perRegion  == [i \in 1..Len(mc.aws_regions) |->
                        LET r == mc.aws_regions[i]
                            fs == InCatalog(r, cat)
                        IN  [j \in 1..Len(fs) |-> AwsInstance(r, fs[j], cat)]]
    IN  Flatten(perProject) \o Flatten(perRegion)

\* uncovered_fetchers taking every fetcher of the catalog
uncovered_fetchers_All(cat, insts) == Keys(cat)

\* main(): the fetchers no instance covers
uncovered_fetchers(cat, insts) ==
    Keys(cat) \ {insts[i].script_name : i \in 1..Len(insts)}


--------------------------------------------------------------------------
(* run_fetchers.py: the summary *)

\* Python's None, and the empty string
PyNone == <<"<None>">>
EmptyStr == <<>>

SUMMARY_STEM == <<"sum", "mary">>

\* the stems of the summary and log files the uploader sets aside
UPLOAD_LOG_STEM == <<"upload", "_", "log">>
KNOWN_SUMMARY_STEMS ==
    { SUMMARY_STEM, <<"execution", "_", "sum", "mary">>, <<"evidence", "_", "sum", "mary">>,
      UPLOAD_LOG_STEM }

\* str(evidence_dir / (stem + ".json"))
EvidencePath(stem) == <<"<evidence_dir>/">> \o stem \o <<".json">>

\* JsonFiles keeping summary.json
JsonFiles_All(listing) == listing

\* {f.stem: f for f in evidence_dir.glob("*.json") if f.name != "summary.json"}
JsonFiles(listing) == SelectSeq(listing, LAMBDA stem : stem # SUMMARY_STEM)

\* the first file of the listing whose stem starts with base_name or starts it
FirstPrefixMatch(json_files, base_name) ==
    LET hits == SelectSeq(json_files,
                          LAMBDA stem : StartsWith(stem, base_name) \/ StartsWith(base_name, stem))
    IN  IF hits = <<>> THEN PyNone ELSE EvidencePath(Head(hits))

\* FindEvidenceFile trying the prefix rule before the base name
FindEvidenceFile_PrefixFirst(json_files, script_name) ==
    LET inDir(stem) == \E i \in 1..Len(json_files) : json_files[i] = stem
        base_name == StripInstanceSuffix(script_name)
    IN  IF inDir(script_name) THEN EvidencePath(script_name)
        ELSE IF FirstPrefixMatch(json_files, base_name) # PyNone
        THEN FirstPrefixMatch(json_files, base_name)
        ELSE IF inDir(base_name) THEN EvidencePath(base_name)
        ELSE PyNone

\* FindEvidenceFile trying the base name before the name itself
FindEvidenceFile_BaseFirst(json_files, script_name) ==
    LET inDir(stem) == \E i \in 1..Len(json_files) : json_files[i] = stem
        base_name == StripInstanceSuffix(script_name)
    IN  IF inDir(base_name) THEN EvidencePath(base_name)
        ELSE IF inDir(script_name) THEN EvidencePath(script_name)
        ELSE FirstPrefixMatch(json_files, base_name)

\* lines 383-402: the evidence file of an entry
FindEvidenceFile(json_files, script_name) ==
    LET inDir(stem) == \E i \in 1..Len(json_files) : json_files[i] = stem
        base_name == StripInstanceSuffix(script_name)
    IN  IF inDir(script_name) THEN EvidencePath(script_name)
        ELSE IF inDir(base_name) THEN EvidencePath(base_name)
        ELSE FirstPrefixMatch(json_files, base_name)

\* re.search(r'_(<kind>_\d+)$', name): the group, or PyNone
GroupLabel(name, kind) ==
    LET n == Len(name)
        d == LeadingDigits([i \in 1..n |-> name[n + 1 - i]])
    IN  IF d >= 1 /\ n >= d + 3 /\ name[n-d] = "_" /\ name[n-d-1] = kind /\ name[n-d-2] = "_"
        THEN SubSeq(name, n-d-1, n)
        ELSE PyNone

\* lines 404-425: the resource of an entry (instance_info is a dict; None is the empty dict,
\* "if instance_info" tells neither from the other)
ResourceOf(script_name, instance_info) ==
    IF instance_info # <<>>
    THEN IF Has(instance_info, script_name)
         THEN LET instance == Get(instance_info, script_name)
              IN  IF instance.provider = "gitlab"
                     /\ Has(instance.config, <<"GITLAB", "_", "PROJECT", "_", "ID">>)
                  THEN Get(instance.config, <<"GITLAB", "_", "PROJECT", "_", "ID">>)
                  ELSE IF instance.provider = "aws"
                          /\ Has(instance.config, <<"AWS", "_", "REGION">>)
                  THEN Get(instance.config, <<"AWS", "_", "REGION">>)
                  ELSE IF instance.provider = "aws"
                          /\ Has(instance.config, <<"AWS", "_", "PROFILE">>)
                  THEN Get(instance.config, <<"AWS", "_", "PROFILE">>)
                  ELSE <<"unknown">>
         ELSE <<"unknown">>
    ELSE IF GroupLabel(script_name, "region") # PyNone THEN GroupLabel(script_name, "region")
    ELSE IF GroupLabel(script_name, "project") # PyNone THEN GroupLabel(script_name, "project")
    ELSE <<"unknown">>

\* StatusOf reporting a failure as ERROR
StatusOf_Error(success) == IF success THEN "PASS" ELSE "ERROR"

\* line 381
StatusOf(success) == IF success THEN "PASS" ELSE "FAIL"

\* SummaryEntry letting the correlation decide the status: no file, no PASS
SummaryEntry_NeedsFile(json_files, script_name, success, instance_info) ==
    [check         |-> script_name,
     resource      |-> ResourceOf(script_name, instance_info),
     status        |-> StatusOf(success /\ FindEvidenceFile(json_files, script_name) # PyNone),
     evidence_file |-> FindEvidenceFile(json_files, script_name)]

SummaryEntry(json_files, script_name, success, instance_info) ==
    [check         |-> script_name,
     resource      |-> ResourceOf(script_name, instance_info),
     status        |-> StatusOf(success),
     evidence_file |-> FindEvidenceFile(json_files, script_name)]

\* create_summary_file counting every result as successful
create_summary_file_CountsAll(listing, res, instance_info, now) ==
    [timestamp          |-> now,
     evidence_directory |-> <<"<evidence_dir>">>,
     total_scripts      |-> Len(res),
     successful_scripts |-> Len(res),
     failed_scripts     |-> Cardinality({i \in 1..Len(res) : ~res[i].v}),
     results            |-> [i \in 1..Len(res) |->
                              SummaryEntry(JsonFiles(listing), res[i].k, res[i].v,
                                           instance_info)]]

\* the summary document create_summary_file writes, from the directory listing
create_summary_file(listing, res, instance_info, now) ==
    LET json_files == JsonFiles(listing)
    IN  [timestamp          |-> now,
         evidence_directory |-> <<"<evidence_dir>">>,
         total_scripts      |-> Len(res),
         successful_scripts |-> Cardinality({i \in 1..Len(res) : res[i].v}),
         failed_scripts     |-> Cardinality({i \in 1..Len(res) : ~res[i].v}),
         results            |-> [i \in 1..Len(res) |->
                                  SummaryEntry(json_files, res[i].k, res[i].v, instance_info)]]

--------------------------------------------------------------------------
(* The evidence directory *)

InListing(listing, stem) == \E i \in 1..Len(listing) : listing[i] = stem

\* the listings a directory may have once stem is written: a new entry may land anywhere,
\* the entries already there keep their relative order
InsertAny(listing, stem) ==
    IF InListing(listing, stem) THEN {listing}
    ELSE {SubSeq(listing, 1, i) \o <<stem>> \o SubSeq(listing, i+1, Len(listing)) :
            i \in 0..Len(listing)}

RECURSIVE InsertAll(_, _)
InsertAll(listing, stems) ==
    IF stems = {} THEN {listing}
    ELSE LET s == CHOOSE x \in stems : TRUE
         IN  UNION {InsertAny(l, s) : l \in InsertAll(listing, stems \ {s})}

\* what a fetcher child may write: nothing, or up to MaxWrites of the candidate files
WriteChoices(candidates) == {w \in SUBSET candidates : Cardinality(w) <= MaxWrites}


--------------------------------------------------------------------------
(* run_fetchers.py: running the instances *)

\* FETCHER_TIMEOUT when the environment does not set it
DefaultTimeout == 300

DigitVal(t) == CASE t = "0" -> 0 [] t = "1" -> 1 [] t = "2" -> 2

RECURSIVE int(_)
\* int(str) of a string of digits
int(s) == IF s = <<>> THEN 0 ELSE int(SubSeq(s, 1, Len(s)-1)) * 10 + DigitVal(s[Len(s)])

\* str.split(): the whitespace-separated words
words(s) == SelectSeq(split(s, " "), LAMBDA w : w # <<>>)

\* the outputs "aws configure get region" may give
CliRegions == {EmptyStr, <<"cli-region">>}

NoChild == <<>>

\* ConfiguredTimeout without the default: no timeout unless FETCHER_TIMEOUT is set
ConfiguredTimeout_NoDefault(e) ==
    IF Has(e, <<"FETCHER", "_", "TIMEOUT">>)
    THEN <<int(Get(e, <<"FETCHER", "_", "TIMEOUT">>))>>
    ELSE <<>>

\* line 512: int(os.environ.get("FETCHER_TIMEOUT", "300"))
ConfiguredTimeout(e) ==
    IF Has(e, <<"FETCHER", "_", "TIMEOUT">>)
    THEN <<int(Get(e, <<"FETCHER", "_", "TIMEOUT">>))>>
    ELSE <<DefaultTimeout>>

\* ChildEnv keeping the parent's value of a variable the instance also sets
ChildEnv_ParentWins(e, config) == e \o SelectSeq(config, LAMBDA c : ~Has(e, c.k))

RECURSIVE ChildEnv(_, _)
\* lines 273-275: os.environ.copy() updated with the instance's config
ChildEnv(e, config) ==
    IF config = <<>> THEN e
    ELSE ChildEnv(Put(e, Head(config).k, Head(config).v), Tail(config))

\* lines 257-278: the child run_fetcher_instance launches
InstanceChild(instance, e) ==
    [name   |-> instance.instance_name,
     script |-> instance.script_name,
     argv   |-> << GetOr(instance.config, <<"AWS", "_", "PROFILE">>,
                         GetOr(e, <<"AWS", "_", "PROFILE">>, EmptyStr)),
                   GetOr(instance.config, <<"AWS", "_", "REGION">>,
                         GetOr(e, <<"AWS", "_", "DEFAULT", "_", "REGION">>, EmptyStr)),
                   <<"<evidence_dir>">>, <<"/dev/null">> >>,
     envp   |-> ChildEnv(e, instance.config),
     std    |-> FALSE]

\* lines 551-566: the additional flags of a standard fetcher
AdditionalFlags(script_name, script_data, e) ==
    words(GetOr(e, upper(script_name) \o <<"_", "FETCHER">>, EmptyStr))
    \o words(GetOr(e, <<"FETCHER", "_", "FLAGS", "_">> \o upper(script_name), EmptyStr))
    \o GetOr(script_data, <<"flags">>, <<>>)

\* lines 323-345: the child run_fetcher_script launches (cli: what the AWS CLI answers)
StandardChild(script_name, script_data, aws_profile, aws_region, e, cli) ==
    LET profile == IF aws_profile # EmptyStr THEN aws_profile
                   ELSE GetOr(e, <<"AWS", "_", "PROFILE">>, EmptyStr)
        region0 == IF aws_region # EmptyStr THEN aws_region
                   ELSE GetOr(e, <<"AWS", "_", "DEFAULT", "_", "REGION">>, EmptyStr)
        region  == IF region0 # EmptyStr THEN region0 ELSE cli
    IN  [name   |-> script_name,
         script |-> script_name,
         argv   |-> <<profile, region, <<"<evidence_dir>">>, <<"/dev/null">>>>
                    \o AdditionalFlags(script_name, script_data, e),
         envp   |-> e,
         std    |-> TRUE]

\* the work list of main(): multi-instance fetchers first, then the standard ones
TotalToRun == Len(instances) + Len(uncovered)

\* lines 454-481: load .env, check the prerequisites, expand the configuration
RF_LoadWith(prerequisites) ==
    /\ prog = "run_fetchers" /\ pc = "start"
    /\ IF prerequisites
       THEN LET mc    == parse_multi_instance_config(env)
                insts == create_fetcher_instances(catalog, mc)
            IN  /\ multi_config' = mc
                /\ instances' = insts
                /\ uncovered' = sorted(uncovered_fetchers(catalog, insts))
                /\ pc' = "confirm"
                /\ exitCode' = exitCode
       ELSE /\ pc' = "done"
            /\ exitCode' = <<0>>
            /\ UNCHANGED <<multi_config, instances, uncovered>>
    /\ UNCHANGED <<prog, env, catalog, timeout, idx, child, results, instance_info_map,
                   target, scripts, mfResults, dirCreated, files, written, ran>>

\* check_prerequisites() finds its files or does not
RF_Load == \E prerequisites \in BOOLEAN : RF_LoadWith(prerequisites)

\* what the user may type at the prompt
Answers == {<<"y">>, <<"Y">>, <<" ", "y", " ">>, <<"n">>, <<"y", "es">>, EmptyStr}

\* RF_ConfirmWith creating the evidence directory before it looks at the answer
RF_ConfirmWith_DirFirst(answer, cli) ==
    /\ prog = "run_fetchers" /\ pc = "confirm"
    /\ dirCreated' = TRUE
    /\ IF lower(strip(answer)) = <<"y">>
       THEN /\ timeout' = ConfiguredTimeout(env)
            /\ target' = [provider |-> "",
                          profile  |-> GetOr(env, <<"AWS", "_", "PROFILE">>, EmptyStr),
                          region   |-> cli]
            /\ idx' = 1
            /\ pc' = "run"
            /\ exitCode' = exitCode
       ELSE /\ pc' = "done"
            /\ exitCode' = <<0>>
            /\ UNCHANGED <<timeout, target, idx>>
    /\ UNCHANGED <<prog, env, catalog, multi_config, instances, uncovered, child, results,
                   instance_info_map, scripts, mfResults, files, written, ran>>

\* lines 498-527: the answer to the prompt, the evidence directory, the configuration
RF_ConfirmWith(answer, cli) ==
    /\ prog = "run_fetchers" /\ pc = "confirm"
    /\ LET confirm == lower(strip(answer)) IN
       IF confirm = <<"y">>
       THEN /\ dirCreated' = TRUE
            /\ timeout' = ConfiguredTimeout(env)
            /\ target' = [provider |-> "",
                          profile  |-> GetOr(env, <<"AWS", "_", "PROFILE">>, EmptyStr),
                          region   |-> IF GetOr(env, <<"AWS", "_", "DEFAULT", "_", "REGION">>,
                                                EmptyStr) # EmptyStr
                                       THEN Get(env, <<"AWS", "_", "DEFAULT", "_", "REGION">>)
                                       ELSE cli]
            /\ idx' = 1
            /\ pc' = "run"
            /\ exitCode' = exitCode
       ELSE /\ pc' = "done"
            /\ exitCode' = <<0>>
            /\ UNCHANGED <<dirCreated, timeout, target, idx>>
    /\ UNCHANGED <<prog, env, catalog, multi_config, instances, uncovered, child, results,
                   instance_info_map, scripts, mfResults, files, written, ran>>

\* lines 498-527: the confirmation prompt
RF_Confirm == \E answer \in Answers, cli \in CliRegions : RF_ConfirmWith(answer, cli)

\* what can happen before the child of an instance runs: the script is not found
\* (lines 253-255), subprocess.run raises (lines 292-294), or the child starts
Launches == {"missing", "oserror", "started"}

\* RF_StartInstance launching without waiting for the child that is running
RF_StartInstance_NoWait ==
    /\ prog = "run_fetchers" /\ pc = "run" /\ Len(child) < 2
    /\ idx <= Len(instances)
    /\ child' = child \o <<InstanceChild(instances[idx], env)>>
    /\ UNCHANGED <<prog, pc, env, catalog, multi_config, instances, uncovered, timeout, idx,
                   results, instance_info_map, target, scripts, mfResults, dirCreated, files,
                   written, ran, exitCode>>

\* lines 532-537 with 211-278: the next multi-instance fetcher
RF_StartInstance ==
    /\ prog = "run_fetchers" /\ pc = "run" /\ child = NoChild
    /\ idx <= Len(instances)
    /\ LET instance == instances[idx] IN
       \E launch \in Launches :
         IF launch = "started"
         THEN /\ child' = <<InstanceChild(instance, env)>>
              /\ UNCHANGED <<results, instance_info_map, idx, ran>>
         ELSE /\ results' = Put(results, instance.instance_name, FALSE)
              /\ instance_info_map' = Put(instance_info_map, instance.instance_name, instance)
              /\ idx' = idx + 1
              /\ ran' = Append(ran, [name |-> instance.instance_name, outcome |-> launch,
                                     wrote |-> {}, hadFile |-> FALSE])
              /\ child' = child
    /\ UNCHANGED <<prog, pc, env, catalog, multi_config, instances, uncovered, timeout,
                   target, scripts, mfResults, dirCreated, files, written, exitCode>>

\* lines 548-574 with 297-345: the next standard fetcher
RF_StartStandard ==
    /\ prog = "run_fetchers" /\ pc = "run" /\ child = NoChild
    /\ idx > Len(instances) /\ idx <= TotalToRun
    /\ LET script_name == uncovered[idx - Len(instances)] IN
       \E launch \in Launches, cli \in CliRegions :
         IF launch = "started"
         THEN /\ child' = <<StandardChild(script_name, Get(catalog, script_name),
                                          target.profile, target.region, env, cli)>>
              /\ UNCHANGED <<results, idx, ran>>
         ELSE /\ results' = Put(results, script_name, FALSE)
              /\ idx' = idx + 1
              /\ ran' = Append(ran, [name |-> script_name, outcome |-> launch,
                                     wrote |-> {}, hadFile |-> FALSE])
              /\ child' = child
    /\ UNCHANGED <<prog, pc, env, catalog, multi_config, instances, uncovered, timeout,
                   instance_info_map, target, scripts, mfResults, dirCreated, files, written,
                   exitCode>>

\* the files a fetcher child may leave in the evidence directory
ChildFiles(c) == {c.script, c.name}

\* RF_Record with the child's environment left in the orchestrator's own
RF_Record_LeaksEnv(c, success, outcome, w, listing) ==
    /\ files' = listing
    /\ results' = Put(results, c.name, success)
    /\ instance_info_map' = IF c.std THEN instance_info_map
                            ELSE Put(instance_info_map, c.name, instances[idx])
    /\ idx' = idx + 1
    /\ child' = NoChild
    /\ env' = c.envp
    /\ ran' = Append(ran, [name |-> c.name, outcome |-> outcome, wrote |-> w,
                           hadFile |-> InListing(listing, c.script) \/ InListing(listing, c.name)])
    /\ UNCHANGED <<prog, pc, catalog, multi_config, instances, uncovered, timeout,
                   target, scripts, mfResults, dirCreated, written, exitCode>>

\* the orchestrator's bookkeeping once subprocess.run has returned or raised
RF_Record(c, success, outcome, w, listing) ==
    /\ files' = listing
    /\ results' = Put(results, c.name, success)
    /\ instance_info_map' = IF c.std THEN instance_info_map
                            ELSE Put(instance_info_map, c.name, instances[idx])
    /\ idx' = idx + 1
    /\ child' = NoChild
    /\ ran' = Append(ran, [name |-> c.name, outcome |-> outcome, wrote |-> w,
                           hadFile |-> InListing(listing, c.script) \/ InListing(listing, c.name)])
    /\ UNCHANGED <<prog, pc, env, catalog, multi_config, instances, uncovered, timeout,
                   target, scripts, mfResults, dirCreated, written, exitCode>>

\* lines 278-287, 345-354: the child exits by itself
RF_ChildExit ==
    /\ prog = "run_fetchers" /\ child # NoChild
    /\ \E returncode \in {0, 1}, w \in WriteChoices(ChildFiles(child[1])) :
         \E listing \in InsertAll(files, w) :
            RF_Record(child[1], returncode = 0,
                      IF returncode = 0 THEN "exit0" ELSE "exitN", w, listing)

\* lines 289-291, 356-358: subprocess.run kills the child after timeout seconds
RF_ChildTimeout ==
    /\ prog = "run_fetchers" /\ child # NoChild
    /\ timeout # <<>>
    /\ \E w \in WriteChoices(ChildFiles(child[1])) :
         \E listing \in InsertAll(files, w) :
            RF_Record(child[1], FALSE, "timeout", w, listing)

\* the values datetime.now() may take
Clock == {"t1", "t2"}

\* lines 364-449: one call of create_summary_file on the evidence directory
WriteSummary(now) ==
    /\ written' = Append(written, create_summary_file(files, results, instance_info_map, now))
    /\ files' \in InsertAny(files, SUMMARY_STEM)

\* lines 576-592: the summary, then main() returns
RF_Summary ==
    /\ prog = "run_fetchers" /\ pc = "run" /\ child = NoChild
    /\ idx > TotalToRun
    /\ \E now \in Clock : WriteSummary(now)
    /\ pc' = "done"
    /\ exitCode' = <<0>>
    /\ UNCHANGED <<prog, env, catalog, multi_config, instances, uncovered, timeout, idx,
                   child, results, instance_info_map, target, scripts, mfResults, dirCreated,
                   ran>>


--------------------------------------------------------------------------
(* main_fetcher.py *)

\* Path("fetchers") / provider / f"{script_name}.sh"
ScriptPath(provider, script_name) == <<"fetchers/", provider, "/">> \o script_name \o <<".sh">>

\* lines 125-136
generate_summary(res, provider, now) ==
    [timestamp          |-> now,
     provider           |-> provider,
     evidence_directory |-> <<"<evidence_dir>">>,
     results            |-> res]

\* lines 257-264: the result record main() appends
MF_Result(script_name, status, evidence_file) ==
    [script |-> script_name, provider |-> target.provider, status |-> status,
     evidence_file |-> evidence_file]

\* the providers of the fetchers directory, and what the command line may name
Providers == {"aws", "okta"}
ArgProfiles == {PyNone, <<"gov_readonly">>}
ArgRegions == {PyNone, <<"us-gov-west-1">>}
ArgTimeouts == {<<>>, <<0>>, <<5>>}

\* the *.sh stems a provider directory may hold
ScriptNames == {<<"a">>, <<"b">>, <<"s3_mfa_delete">>}
ScriptLists == {sorted(S) : S \in {T \in SUBSET ScriptNames : Cardinality(T) <= MaxScripts}}

\* lines 181-248: arguments, profile and region, evidence directory, script list
MF_Start ==
    /\ prog = "main_fetcher" /\ pc = "start"
    /\ \E provider \in Providers, argProfile \in ArgProfiles, argRegion \in ArgRegions,
          argTimeout \in ArgTimeouts, scr \in ScriptLists :
         /\ target' = [provider |-> provider,
                       profile  |-> IF argProfile # PyNone THEN argProfile
                                    ELSE IF provider = "aws"
                                    THEN GetOr(env, <<"AWS", "_", "PROFILE">>, PyNone)
                                    ELSE GetOr(env, <<"OKTA", "_", "PROFILE">>, PyNone),
                       region   |-> IF argRegion # PyNone THEN argRegion
                                    ELSE IF provider = "aws"
                                    THEN GetOr(env, <<"AWS", "_", "REGION">>, <<"us-east-1">>)
                                    ELSE PyNone]
         /\ env' = IF provider = "aws" /\ target'.profile \notin {PyNone, EmptyStr}
                    THEN Put(env, <<"AWS", "_", "PROFILE">>, target'.profile) ELSE env
         /\ timeout' = argTimeout
         /\ scripts' = scr
         /\ dirCreated' = TRUE
         /\ IF scr = <<>>
            THEN pc' = "done" /\ exitCode' = <<1>> /\ idx' = idx
            ELSE pc' = "run" /\ exitCode' = exitCode /\ idx' = 1
    /\ UNCHANGED <<prog, catalog, multi_config, instances, uncovered, child, results,
                   instance_info_map, mfResults, files, written, ran>>

\* the child run_provider_script launches (lines 80-96)
ProviderChild(script_name) ==
    [name   |-> script_name,
     script |-> script_name,
     argv   |-> IF target.provider = "aws"
                THEN <<target.profile, target.region, <<"<evidence_dir>">>, <<"/dev/null">>>>
                ELSE (IF target.profile # PyNone THEN <<<<"--profile">>, target.profile>> ELSE <<>>)
                     \o (IF target.region # PyNone THEN <<<<"--region">>, target.region>> ELSE <<>>)
                     \o << <<"--output-dir">>, <<"<evidence_dir>">> >>,
     envp   |-> env,
     std    |-> TRUE]

\* subprocess.run raises TypeError on an argument that is None
ArgvHasNone(c) == \E i \in 1..Len(c.argv) : c.argv[i] = PyNone

\* what can happen before the child of a script runs: the script is gone (lines 73-74),
\* chmod is refused (line 77), the launch fails with an OSError (lines 120-122), or it starts
ProviderLaunches == {"missing", "chmod_denied", "oserror", "started"}

\* lines 250-264 with 69-103: the next script of the provider
MF_StartScript ==
    /\ prog = "main_fetcher" /\ pc = "run" /\ child = NoChild
    /\ idx <= Len(scripts)
    /\ LET script_name == scripts[idx] IN
       \E launch \in ProviderLaunches :
         IF launch = "missing"
         THEN /\ mfResults' = Append(mfResults,
                    MF_Result(script_name, "ERROR",
                              <<"Script not found: ">> \o ScriptPath(target.provider, script_name)))
              /\ ran' = Append(ran, [name |-> script_name, outcome |-> "missing",
                                     wrote |-> {}, hadFile |-> FALSE])
              /\ idx' = idx + 1
              /\ UNCHANGED <<pc, child, exitCode>>
         ELSE IF launch = "chmod_denied" \/ ArgvHasNone(ProviderChild(script_name))
         THEN \* PermissionError outside the try, or TypeError no except clause catches
              /\ pc' = "crashed"
              /\ exitCode' = <<1>>
              /\ ran' = Append(ran, [name |-> script_name, outcome |-> "raised",
                                     wrote |-> {}, hadFile |-> FALSE])
              /\ UNCHANGED <<mfResults, idx, child>>
         ELSE IF launch = "oserror"
         THEN /\ mfResults' = Append(mfResults, MF_Result(script_name, "ERROR", EmptyStr))
              /\ ran' = Append(ran, [name |-> script_name, outcome |-> "oserror",
                                     wrote |-> {}, hadFile |-> FALSE])
              /\ idx' = idx + 1
              /\ UNCHANGED <<pc, child, exitCode>>
         ELSE /\ child' = <<ProviderChild(script_name)>>
              /\ UNCHANGED <<pc, mfResults, idx, ran, exitCode>>
    /\ UNCHANGED <<prog, env, catalog, multi_config, instances, uncovered, timeout, results,
                   instance_info_map, target, scripts, dirCreated, files, written>>

MF_Record(c, status, evidence_file, outcome, w, listing) ==
    /\ files' = listing
    /\ mfResults' = Append(mfResults, MF_Result(c.name, status, evidence_file))
    /\ idx' = idx + 1
    /\ child' = NoChild
    /\ ran' = Append(ran, [name |-> c.name, outcome |-> outcome, wrote |-> w,
                           hadFile |-> InListing(listing, c.name)])
    /\ UNCHANGED <<prog, pc, env, catalog, multi_config, instances, uncovered, timeout,
                   results, instance_info_map, target, scripts, dirCreated, written, exitCode>>

\* lines 101-110, 115-119: the child exits by itself
MF_ChildExit ==
    /\ prog = "main_fetcher" /\ child # NoChild
    /\ \E returncode \in {0, 1}, w \in WriteChoices(ChildFiles(child[1])) :
         \E listing \in InsertAll(files, w) :
            IF returncode # 0
            THEN MF_Record(child[1], "ERROR", EmptyStr, "exitN", w, listing)
            ELSE IF InListing(listing, child[1].name)
            THEN MF_Record(child[1], "PASS", EvidencePath(child[1].name), "exit0", w, listing)
            ELSE MF_Record(child[1], "FAIL", EmptyStr, "exit0", w, listing)

\* line 99: "if timeout"
TimeoutArmed == timeout # <<>> /\ timeout[1] # 0

\* lines 112-114: subprocess.run kills the child after timeout seconds
MF_ChildTimeout ==
    /\ prog = "main_fetcher" /\ child # NoChild
    /\ TimeoutArmed
    /\ \E w \in WriteChoices(ChildFiles(child[1])) :
         \E listing \in InsertAll(files, w) :
            MF_Record(child[1], "TIMEOUT", EmptyStr, "timeout", w, listing)

\* MF_ExitStatus counting FAIL as a failure of the run
MF_ExitStatus_FailToo(res) ==
    IF \E i \in 1..Len(res) : res[i].status # "PASS" THEN <<1>> ELSE <<0>>

\* lines 281-288: the exit status of main()
MF_ExitStatus(res) ==
    IF \E i \in 1..Len(res) : res[i].status \in {"ERROR", "TIMEOUT"} THEN <<1>> ELSE <<0>>

\* lines 270-288: the summary, then main() returns the exit status
MF_Summary ==
    /\ prog = "main_fetcher" /\ pc = "run" /\ child = NoChild
    /\ idx > Len(scripts)
    /\ \E now \in Clock :
         written' = Append(written, generate_summary(mfResults, target.provider, now))
    /\ files' \in InsertAny(files, SUMMARY_STEM)
    /\ pc' = "done"
    /\ exitCode' = MF_ExitStatus(mfResults)
    /\ UNCHANGED <<prog, env, catalog, multi_config, instances, uncovered, timeout, idx,
                   child, results, instance_info_map, target, scripts, mfResults, dirCreated,
                   ran>>


--------------------------------------------------------------------------
(* Inputs: environments and catalogs *)

Var(key, value) == [k |-> key, v |-> value]

\* an entry of evidence_sets.json
Fetcher(name, display) == [k |-> name, v |-> << [k |-> <<"name">>, v |-> display] >>]

FA  == <<"a">>
FB  == <<"b">>
FS3 == <<"s3_mfa_delete">>

Catalogs ==
    { << Fetcher(FS3, <<"S3 MFA Delete">>) >>,
      << Fetcher(FB, <<"Fetcher B">>), Fetcher(FA, <<"Fetcher A">>) >>,
      << Fetcher(FA, <<"Fetcher A">>), Fetcher(<<"sum">>, <<"Sum">>) >> }

GL1(key) == <<"GITLAB", "_", "PROJECT", "_", "1", "_">> \o key
AR(n, key) == <<"AWS", "_", "REGION", "_">> \o n \o <<"_">> \o key

\* a complete GitLab group
GitlabGroup1 ==
    << Var(GL1(<<"URL">>), <<"https://gitlab.example">>),
       Var(GL1(<<"API", "_", "ACCESS", "_", "TOKEN">>), <<"glpat">>),
       Var(GL1(<<"ID">>), <<"group/app">>),
       Var(GL1(<<"FETCHERS">>), <<"a">>) >>

\* the environments of the runs explored from start to end
RunEnvs ==
    { <<>>,
      << Var(AR(<<"1">>, <<"REGION">>), <<"us-east-1">>),
         Var(AR(<<"1">>, <<"FETCHERS">>), <<"s3_mfa_delete">>) >>,
      << Var(<<"AWS", "_", "PROFILE">>, <<"prod">>),
         Var(AR(<<"2">>, <<"FETCHERS">>), <<"a", ",", " ", "b">>),
         Var(<<"FETCHER", "_", "TIMEOUT">>, <<"2", "0">>) >>,
      GitlabGroup1 \o << Var(AR(<<"2">>, <<"FETCHERS">>), <<"a">>),
                         Var(<<"AWS", "_", "DEFAULT", "_", "REGION">>, <<"eu-west-1">>),
                         Var(GL1(<<"BRANCH">>), <<"main">>),
                         Var(GL1(<<"PROJECT", "_", "ID">>), <<"other/app">>),
                         Var(<<"A", "_", "FETCHER">>, <<"--all", " ", "--json">>) >>,
      << Var(AR(<<"1">>, <<"FETCHERS">>), <<"a", ",", "a">>),
         Var(<<"B", "_", "FETCHER">>, <<"--verbose">>) >>,
      << Var(GL1(<<"URL">>), <<"https://gitlab.example">>),
         Var(GL1(<<"FETCHERS">>), <<"a">>),
         Var(AR(<<"1">>, <<"REGION">>), <<"us-east-1">>) >>,
      << Var(AR(<<"2">>, <<"FETCHERS">>), <<"b">>),
         Var(<<"AWS", "_", "PROFILE">>, <<"prod">>),
         Var(AR(<<"1">>, <<"FETCHERS">>), <<"a">>),
         Var(AR(<<"1">>, <<"PROFILE">>), <<"dev">>) >> }

\* the variables the expansion specification combines
ExpandVars ==
    { Var(AR(<<"1">>, <<"FETCHERS">>), <<"a">>),
      Var(AR(<<"1">>, <<"fetchers">>), <<"b">>),
      Var(AR(<<"1">>, <<"REGION">>), <<"us-east-1">>),
      Var(AR(<<"2">>, <<"FETCHERS">>), <<"a", ",", " ", "b">>),
      Var(AR(<<"2">>, <<"PROFILE">>), <<"prod">>),
      Var(AR(<<"1", "2">>, <<"FETCHERS">>), <<"a", ",", "a">>),
      Var(<<"GITLAB", "_", "PROJECT", "_", "2", "_", "FETCHERS">>, <<"b">>) }

RECURSIVE SeqsOf(_, _)
\* the sequences of at most n distinct elements of S
SeqsOf(S, n) ==
    IF n = 0 THEN {<<>>}
    ELSE LET shorter == SeqsOf(S, n - 1)
         IN  shorter \cup UNION {{Append(q, x) : x \in {y \in S : \A i \in 1..Len(q) : q[i] # y}} :
                                  q \in shorter}

\* an environment is a dict: no two variables with the same name
DistinctKeys(e) == \A i, j \in 1..Len(e) : i # j => e[i].k # e[j].k

ExpandEnvs ==
    {e \in UNION {{SubSeq(q, 1, i) \o base \o SubSeq(q, i + 1, Len(q)) :
                     i \in 0..Len(q), base \in {<<>>, GitlabGroup1}} :
                   q \in SeqsOf(ExpandVars, MaxEnvLen)} : DistinctKeys(e)}

--------------------------------------------------------------------------
(* Specifications *)

Blank ==
    /\ pc = "start"
    /\ multi_config = [gitlab_projects |-> <<>>, aws_regions |-> <<>>]
    /\ instances = <<>>
    /\ uncovered = <<>>
    /\ timeout = <<>>
    /\ idx = 0
    /\ child = NoChild
    /\ results = <<>>
    /\ instance_info_map = <<>>
    /\ target = [provider |-> "", profile |-> EmptyStr, region |-> EmptyStr]
    /\ scripts = <<>>
    /\ mfResults = <<>>
    /\ dirCreated = FALSE
    /\ files = <<>>
    /\ written = <<>>
    /\ ran = <<>>
    /\ exitCode = <<>>

Init ==
    /\ Blank
    /\ \/ prog = "run_fetchers" /\ env \in RunEnvs /\ catalog \in Catalogs
       \/ /\ prog = "main_fetcher"
          /\ env \in {<<>>, << Var(<<"AWS", "_", "PROFILE">>, <<"prod">>) >>}
          /\ catalog = <<>>

Next ==
    \/ RF_Load
    \/ RF_Confirm
    \/ RF_StartInstance
    \/ RF_StartStandard
    \/ RF_ChildExit
    \/ RF_ChildTimeout
    \/ RF_Summary
    \/ MF_Start
    \/ MF_StartScript
    \/ MF_ChildExit
    \/ MF_ChildTimeout
    \/ MF_Summary

Spec == Init /\ [][Next]_vars

\* the expansion alone, over every short environment
InitExpand ==
    /\ Blank
    /\ prog = "run_fetchers" /\ env \in ExpandEnvs /\ catalog \in Catalogs

SpecExpand == InitExpand /\ [][RF_Load]_vars


--------------------------------------------------------------------------
(* create_summary_file alone, called twice on the same inputs *)

\* bounds of the inputs
MaxResults == 2
MaxFiles == 2

\* instance and fetcher names the results may carry
SummaryNames ==
    { <<"a">>, <<"a", "_", "project", "_", "1">>, <<"sum">>, <<"sum", "_", "region", "_", "2">>,
      <<"upload">> }

\* stems of the .json files the directory may hold
SummaryStems ==
    { <<"a">>, <<"a", "b">>, <<"a", "_", "project", "_", "1">>, SUMMARY_STEM, UPLOAD_LOG_STEM }

\* the instance main() records for a multiplied instance name
InfoOf(name) ==
    IF GroupLabel(name, "project") # PyNone
    THEN GitlabInstance([name |-> GroupLabel(name, "project"), url |-> <<"https://gitlab.example">>,
                         token |-> <<"glpat">>, project_id |-> <<"group/app">>,
                         fetchers |-> <<StripInstanceSuffix(name)>>, config |-> <<>>],
                        StripInstanceSuffix(name),
                        << Fetcher(StripInstanceSuffix(name), <<"Fetcher">>) >>)
    ELSE AwsInstance([name |-> GroupLabel(name, "region"), region |-> <<"us-east-1">>,
                      profile |-> <<"prod">>, fetchers |-> <<StripInstanceSuffix(name)>>,
                      config |-> <<>>],
                     StripInstanceSuffix(name),
                     << Fetcher(StripInstanceSuffix(name), <<"Fetcher">>) >>)

\* instance_info_map as main() builds it: the multiplied instances of the results
InfoMapOf(res) ==
    LET multi == SelectSeq(res, LAMBDA r : StripInstanceSuffix(r.k) # r.k)
    IN  [i \in 1..Len(multi) |-> [k |-> multi[i].k, v |-> InfoOf(multi[i].k)]]

\* the maps main() may have built for the results: a name with an instance suffix is a
\* multiplied instance (in the map) or a standard fetcher of that name (not in it)
InfoMapsOf(res) ==
    LET multi == {res[i].k : i \in {j \in 1..Len(res) : StripInstanceSuffix(res[j].k) # res[j].k}}
    IN  {InfoMapOf(SelectSeq(res, LAMBDA r : r.k \in T)) : T \in SUBSET multi}

ResultDicts ==
    UNION { { [i \in 1..Len(names) |-> [k |-> names[i], v |-> oks[i]]] :
                oks \in [1..Len(names) -> BOOLEAN] } :
            names \in SeqsOf(SummaryNames, MaxResults) }

InitSummary ==
    /\ prog = "run_fetchers"
    /\ pc = "summary"
    /\ env = <<>>
    /\ catalog = <<>>
    /\ multi_config = [gitlab_projects |-> <<>>, aws_regions |-> <<>>]
    /\ instances = <<>>
    /\ uncovered = <<>>
    /\ timeout = <<DefaultTimeout>>
    /\ idx = 1
    /\ child = NoChild
    /\ results \in ResultDicts
    /\ instance_info_map \in InfoMapsOf(results)
    /\ target = [provider |-> "", profile |-> EmptyStr, region |-> EmptyStr]
    /\ scripts = <<>>
    /\ mfResults = <<>>
    /\ dirCreated = TRUE
    /\ files \in SeqsOf(SummaryStems, MaxFiles)
    /\ written = <<>>
    /\ ran = <<>>
    /\ exitCode = <<>>

\* create_summary_file called once, then once more some time later
SummaryCall ==
    /\ pc = "summary"
    /\ Len(written) < 2
    /\ WriteSummary(IF written = <<>> THEN "t1" ELSE "t2")
    /\ UNCHANGED <<prog, pc, env, catalog, multi_config, instances, uncovered, timeout, idx,
                   child, results, instance_info_map, target, scripts, mfResults, dirCreated,
                   ran, exitCode>>

SpecSummary == InitSummary /\ [][SummaryCall]_vars

\* the runs under the scheduling the code has: main() runs on by itself, subprocess.run
\* raises TimeoutExpired once the timeout has passed; a child may never exit by itself
Orchestrator ==
    \/ RF_Load \/ RF_Confirm \/ RF_StartInstance \/ RF_StartStandard \/ RF_Summary
    \/ MF_Start \/ MF_StartScript \/ MF_Summary

\* the runs whose termination is explored: default and configured FETCHER_TIMEOUT, with
\* multi-instance and standard fetchers; every command line of main_fetcher
LiveEnvs ==
    { << Var(AR(<<"1">>, <<"REGION">>), <<"us-east-1">>),
         Var(AR(<<"1">>, <<"FETCHERS">>), <<"s3_mfa_delete">>) >>,
      << Var(<<"AWS", "_", "PROFILE">>, <<"prod">>),
         Var(AR(<<"2">>, <<"FETCHERS">>), <<"a", ",", " ", "b">>),
         Var(<<"FETCHER", "_", "TIMEOUT">>, <<"2", "0">>) >> }

InitLive ==
    /\ Blank
    /\ \/ prog = "run_fetchers" /\ env \in LiveEnvs /\ catalog \in Catalogs
       \/ /\ prog = "main_fetcher"
          /\ env \in {<<>>, << Var(<<"AWS", "_", "PROFILE">>, <<"prod">>) >>}
          /\ catalog = <<>>

LiveSpec ==
    /\ InitLive /\ [][Next]_vars
    /\ WF_vars(Orchestrator)
    /\ WF_vars(RF_ChildTimeout)
    /\ WF_vars(MF_ChildTimeout)


--------------------------------------------------------------------------
(* Properties *)

\* the entries of the last summary written: [name, status, evidence_file]
Entries ==
    IF written = <<>> THEN <<>>
    ELSE LET s == written[Len(written)]
         IN  [i \in 1..Len(s.results) |->
                [name          |-> IF prog = "run_fetchers" THEN s.results[i].check
                                   ELSE s.results[i].script,
                 status        |-> s.results[i].status,
                 evidence_file |-> s.results[i].evidence_file]]

WasRun(name) == \E i \in 1..Len(ran) : ran[i].name = name

\* what the last child run under a name did
LastRun(name) ==
    ran[CHOOSE i \in 1..Len(ran) :
          ran[i].name = name /\ \A j \in (i+1)..Len(ran) : ran[j].name # name]

\* the classification table of the specification
TableStatus(r) ==
    CASE r.outcome = "timeout" -> "TIMEOUT"
      [] r.outcome = "exit0" /\ r.hadFile -> "PASS"
      [] r.outcome = "exit0" /\ ~r.hadFile -> "FAIL"
      [] OTHER -> "ERROR"

C2_NoInstanceAbortsRun ==
    /\ pc # "crashed"
    /\ pc = "done" /\ idx >= 1 =>
          /\ written # <<>>
          /\ Len(ran) = IF prog = "run_fetchers" THEN TotalToRun ELSE Len(scripts)

\* the FETCHERS lists of the valid groups
C3_Lists ==
    [i \in 1..Len(multi_config.gitlab_projects) |-> multi_config.gitlab_projects[i].fetchers]
    \o [i \in 1..Len(multi_config.aws_regions) |-> multi_config.aws_regions[i].fetchers]

RECURSIVE C3_SumLen(_)
C3_SumLen(lists) == IF lists = <<>> THEN 0 ELSE Len(Head(lists)) + C3_SumLen(Tail(lists))

\* every group of the environment is fully populated and names catalog fetchers only
C3_Pre ==
    /\ pc = "confirm"
    /\ Len(ScanGroups(GITLAB_PREFIX, env, Len(env))) = Len(multi_config.gitlab_projects)
    /\ Len(ScanGroups(AWS_PREFIX, env, Len(env))) = Len(multi_config.aws_regions)
    /\ \A i \in 1..Len(C3_Lists) : \A j \in 1..Len(C3_Lists[i]) : Has(catalog, C3_Lists[i][j])

C3_DistinctNames ==
    \A i, j \in 1..Len(instances) :
        i # j => instances[i].instance_name # instances[j].instance_name

\* one standard instance per catalog fetcher no group names
C3_Standard ==
    /\ \A i, j \in 1..Len(uncovered) : i # j => uncovered[i] # uncovered[j]
    /\ {uncovered[i] : i \in 1..Len(uncovered)} =
          Keys(catalog) \ UNION {{C3_Lists[i][j] : j \in 1..Len(C3_Lists[i])} :
                                   i \in 1..Len(C3_Lists)}

C4_Incomplete(prefix, mandatory) ==
    LET groups == ScanGroups(prefix, env, Len(env))
    IN  {groups[i].k : i \in {j \in 1..Len(groups) : ~(mandatory \subseteq Keys(groups[j].v))}}

\* the environment without the variables of one group
C4_Without(prefix, num) ==
    SelectSeq(env, LAMBDA x : ~(GroupMatch(prefix, x.k).ok /\ GroupMatch(prefix, x.k).num = num))

C4_Expansion(e) ==
    LET insts == create_fetcher_instances(catalog, parse_multi_instance_config(e))
    IN  <<insts, sorted(uncovered_fetchers(catalog, insts))>>

C4_Dropped(prefix, mandatory, kind) ==
    \A num \in C4_Incomplete(prefix, mandatory) :
        /\ \A i \in 1..Len(instances) :
              GroupLabel(instances[i].instance_name, kind) # <<kind, "_">> \o num
        /\ C4_Expansion(C4_Without(prefix, num)) = <<instances, uncovered>>

\* C4: a group that lacks a mandatory key gives no instance and no error, and the
\* instances and standard fetchers are those of the environment without that group.
C4_PartialGroupExcluded ==
    pc = "confirm" =>
        /\ C4_Dropped(GITLAB_PREFIX, GITLAB_MANDATORY, "project")
        /\ C4_Dropped(AWS_PREFIX, AWS_MANDATORY, "region")
        /\ \A i \in 1..Len(instances) : \A j \in 1..Len(instances[i].config) :
              instances[i].config[j].v # PyKeyError

\* an incomplete GitLab group next to a group that does give instances
C4_Witness ==
    /\ pc = "confirm"
    /\ C4_Incomplete(GITLAB_PREFIX, GITLAB_MANDATORY) # {}
    /\ instances # <<>>


\* name is base followed by _project_<n> or _region_<n>
C5_IsMultiplied(name, base) ==
    /\ Len(name) >= Len(base) + 4
    /\ SubSeq(name, 1, Len(base)) = base
    /\ name[Len(base) + 1] = "_"
    /\ name[Len(base) + 2] \in {"project", "region"}
    /\ name[Len(base) + 3] = "_"
    /\ \A i \in (Len(base) + 4)..Len(name) : name[i] \in Digits

\* name without its instance suffix, if it has one
C5_BaseOf(name) ==
    IF \E n \in 0..Len(name) : C5_IsMultiplied(name, SubSeq(name, 1, n))
    THEN SubSeq(name, 1, CHOOSE n \in 0..Len(name) : C5_IsMultiplied(name, SubSeq(name, 1, n)))
    ELSE name

\* the stems of the evidence files of the directory (summary.json is the run's manifest)
C5_EvidenceStems == {files[i] : i \in 1..Len(files)} \ {SUMMARY_STEM}

\* C5: in every summary written, an entry named <base>_project_<n> or <base>_region_<n>
\* with no file of its own name and a file <base>.json refers to <base>.json, and an
\* entry has no evidence file only if no file matches by any of the three rules.
C5_FallbackNeverEmpty ==
    \A n \in 1..Len(written) : \A i \in 1..Len(written[n].results) :
        LET e == written[n].results[i] IN
        /\ \A base \in C5_EvidenceStems :
              C5_IsMultiplied(e.check, base) /\ e.check \notin C5_EvidenceStems
                 => e.evidence_file = EvidencePath(base)
        /\ e.evidence_file = PyNone =>
              /\ e.check \notin C5_EvidenceStems
              /\ C5_BaseOf(e.check) \notin C5_EvidenceStems
              /\ \A stem \in C5_EvidenceStems :
                    ~StartsWith(stem, C5_BaseOf(e.check)) /\ ~StartsWith(C5_BaseOf(e.check), stem)

\* a multiplied entry that got the file of its base name, another file being listed first
C5_Witness ==
    /\ written # <<>>
    /\ Cardinality(C5_EvidenceStems) >= 2
    /\ \E i \in 1..Len(written[1].results) :
          LET e == written[1].results[i] IN
          /\ e.check \notin C5_EvidenceStems
          /\ C5_BaseOf(e.check) # e.check
          /\ C5_BaseOf(e.check) \in C5_EvidenceStems
          /\ e.evidence_file = EvidencePath(C5_BaseOf(e.check))
          /\ files[1] # C5_BaseOf(e.check)

\* the outcomes the table resolves to ERROR or TIMEOUT
C6_Bad == {"timeout", "exitN", "missing", "oserror"}

C7_Env ==
    << Var(<<"AWS", "_", "REGION", "_", "1", "_", "REGION">>, <<"us-east-1">>),
       Var(<<"AWS", "_", "REGION", "_", "1", "_", "FETCHERS">>, <<"s3_mfa_delete">>) >>

C7_Scenario ==
    /\ prog = "run_fetchers" /\ pc = "done"
    /\ env = C7_Env
    /\ Keys(catalog) = {<<"s3_mfa_delete">>}
    /\ Len(ran) = 1
    /\ ran[1].outcome = "exit0" /\ ran[1].wrote = {<<"s3_mfa_delete">>}

\* C7: in the end-to-end scenario the summary has the one entry s3_mfa_delete_region_1,
\* resource us-east-1, status PASS, evidence file <evidenceDir>/s3_mfa_delete.json, and
\* total_scripts = successful_scripts = 1.
C7_EndToEnd ==
    C7_Scenario =>
        /\ Len(written) = 1
        /\ written[1].results =
              << [check         |-> <<"s3_mfa_delete", "_", "region", "_", "1">>,
                  resource      |-> <<"us-east-1">>,
                  status        |-> "PASS",
                  evidence_file |-> <<"<evidence_dir>/", "s3_mfa_delete", ".json">>] >>
        /\ written[1].total_scripts = 1
        /\ written[1].successful_scripts = 1

C7_Witness == C7_Scenario /\ written # <<>>

\* C8: two calls of create_summary_file on the same results, instance information and
\* evidence files write the same summary but for the timestamp.
C8_Idempotent ==
    Len(written) = 2 =>
        [written[1] EXCEPT !.timestamp = "-"] = [written[2] EXCEPT !.timestamp = "-"]

\* two summaries with different timestamps, the second call having found the
\* summary.json of the first, with an entry that has an evidence file and one that has none
C8_Witness ==
    /\ Len(written) = 2
    /\ written[1].timestamp # written[2].timestamp
    /\ InListing(files, SUMMARY_STEM)
    /\ \E i \in 1..Len(written[2].results) : written[2].results[i].evidence_file # PyNone
    /\ \E i \in 1..Len(written[2].results) : written[2].results[i].evidence_file = PyNone

\* C9: the entry of an instance whose child was timed out has no evidence file.
C9_NoEvidenceForTimedOut ==
    pc = "done" =>
        \A j \in 1..Len(Entries) :
            WasRun(Entries[j].name) /\ LastRun(Entries[j].name).outcome = "timeout"
               => Entries[j].evidence_file \in {PyNone, EmptyStr}

RunLength == IF prog = "run_fetchers" THEN TotalToRun ELSE Len(scripts)

\* C11: the summary is written only once every instance of the run has been attempted
\* and none is running, nothing is started after it, and a run that started its
\* instances and ended has written summary.json exactly once.
C11_SummaryOnceAfterAll ==
    /\ Len(written) <= 1
    /\ written # <<>> => child = NoChild /\ idx > RunLength /\ Len(ran) = RunLength
    /\ pc \in {"done", "crashed"} /\ idx >= 1 => Len(written) = 1

\* C12: in a finished run of run_fetchers.py every instance was attempted once, and
\* the results array of the summary and total_scripts count the instances executed.
C12_OneResultPerInstance ==
    prog = "run_fetchers" /\ pc = "done" /\ written # <<>> =>
        /\ Len(ran) = TotalToRun
        /\ Len(written[1].results) = Len(ran)
        /\ written[1].total_scripts = Len(ran)

\* the names of the instances main() runs: the multiplied ones, then the standard ones
RunNames == [i \in 1..Len(instances) |-> instances[i].instance_name] \o uncovered

\* C13: the names of the instances of a run are pairwise distinct.
C13_UniqueNames ==
    pc = "confirm" => \A i, j \in 1..Len(RunNames) : i # j => RunNames[i] # RunNames[j]

\* C14: no two distinct instances of a run write the same evidence file, and no two
\* distinct entries of the summary refer to the same evidence file.
C14_CollisionFree ==
    /\ \A i, j \in 1..Len(ran) :
          ran[i].name # ran[j].name => ran[i].wrote \cap ran[j].wrote = {}
    /\ \A i, j \in 1..Len(Entries) :
          i # j /\ Entries[i].evidence_file \notin {PyNone, EmptyStr}
             => Entries[i].evidence_file # Entries[j].evidence_file

\* the files of the listing that the prefix rule accepts for a base name, by position
C15_PrefixHits(base) ==
    {k \in 1..Len(files) : /\ files[k] # SUMMARY_STEM
                           /\ StartsWith(files[k], base) \/ StartsWith(base, files[k])}

\* C15: correlation takes <name>.json if it exists, else <base>.json if it exists, and
\* only when neither exists the first file of the listing the prefix rule accepts.
C15_RuleOrder ==
    \A n \in 1..Len(written) : \A i \in 1..Len(written[n].results) :
        LET e == written[n].results[i]
            base == C5_BaseOf(e.check)
            hits == C15_PrefixHits(base)
        IN  IF e.check \in C5_EvidenceStems THEN e.evidence_file = EvidencePath(e.check)
            ELSE IF base \in C5_EvidenceStems THEN e.evidence_file = EvidencePath(base)
            ELSE IF hits = {} THEN e.evidence_file = PyNone
            ELSE e.evidence_file =
                    EvidencePath(files[CHOOSE k \in hits : \A h \in hits : k <= h])

\* an entry that got the file of its own name, the file of its base name being listed
\* before it
C15_Witness ==
    /\ written # <<>>
    /\ \E i \in 1..Len(written[1].results) :
          LET e == written[1].results[i] IN
          /\ C5_BaseOf(e.check) # e.check
          /\ {e.check, C5_BaseOf(e.check)} \subseteq C5_EvidenceStems
          /\ files[1] = C5_BaseOf(e.check)
          /\ e.evidence_file = EvidencePath(e.check)

\* C16: no entry has one of the known summary or log files for its evidence file.
C16_NoSummaryAsEvidence ==
    \A n \in 1..Len(written) : \A i \in 1..Len(written[n].results) :
        \A stem \in KNOWN_SUMMARY_STEMS :
            written[n].results[i].evidence_file # EvidencePath(stem)

\* the multiplication-group label a name ends with (project_<n>, region_<n>), if any
C17_Label(name) ==
    IF C5_BaseOf(name) # name
    THEN SubSeq(name, Len(C5_BaseOf(name)) + 2, Len(name))
    ELSE <<"unknown">>

\* the resource the rule gives an entry: the binding's project id, else its region,
\* else its profile; without a binding carrying one of them the label of the name
C17_Expected(name) ==
    LET config == IF Has(instance_info_map, name)
                  THEN Get(instance_info_map, name).config ELSE <<>>
    IN  IF Has(config, <<"GITLAB", "_", "PROJECT", "_", "ID">>)
        THEN Get(config, <<"GITLAB", "_", "PROJECT", "_", "ID">>)
        ELSE IF Has(config, <<"AWS", "_", "REGION">>) THEN Get(config, <<"AWS", "_", "REGION">>)
        ELSE IF Has(config, <<"AWS", "_", "PROFILE">>) THEN Get(config, <<"AWS", "_", "PROFILE">>)
        ELSE C17_Label(name)

\* C17: every entry of a summary has for resource the binding's GitLab project id, else
\* its AWS region, else its AWS profile, else the group label of its name, else "unknown".
C17_ResourceLabel ==
    \A n \in 1..Len(written) : \A i \in 1..Len(written[n].results) :
        written[n].results[i].resource = C17_Expected(written[n].results[i].check)

\* some file of the directory matches the name by one of the three rules
C18_SomeFileMatches(name) ==
    \/ name \in C5_EvidenceStems
    \/ C5_BaseOf(name) \in C5_EvidenceStems
    \/ C15_PrefixHits(C5_BaseOf(name)) # {}

\* C18: in the summary of run_fetchers.py the status of an entry is that of its child
\* (PASS for exit 0, FAIL otherwise) whether or not a file matches; an entry whose
\* child exited 0 and that no file matches is PASS with no evidence_file.
C18_StatusIndependentOfFile ==
    prog = "run_fetchers" /\ pc = "done" =>
        \A j \in 1..Len(Entries) :
            LET e == Entries[j] IN
            /\ e.status = IF Get(results, e.name) THEN "PASS" ELSE "FAIL"
            /\ LastRun(e.name).outcome = "exit0" => e.status = "PASS"
            /\ ~C18_SomeFileMatches(e.name) => e.evidence_file = PyNone

\* a finished run with a PASS entry that has no evidence file and a PASS entry that has one
C18_Witness ==
    /\ prog = "run_fetchers" /\ pc = "done"
    /\ \E j \in 1..Len(Entries) :
          /\ Entries[j].status = "PASS" /\ Entries[j].evidence_file = PyNone
          /\ LastRun(Entries[j].name).outcome = "exit0"
    /\ \E j \in 1..Len(Entries) :
          Entries[j].status = "PASS" /\ Entries[j].evidence_file # PyNone

\* position in the environment of the first variable of the group a group name stands for
C19_FirstSeen(prefix, name) ==
    LET num == SubSeq(name, 3, Len(name))
        at  == {k \in 1..Len(env) : GroupMatch(prefix, env[k].k).ok
                                    /\ GroupMatch(prefix, env[k].k).num = num}
    IN  CHOOSE k \in at : \A h \in at : k <= h

\* the groups of a list are in the order the scan of the environment met them
C19_InEnvOrder(prefix, groups) ==
    \A i, j \in 1..Len(groups) :
        i < j => C19_FirstSeen(prefix, groups[i].name) < C19_FirstSeen(prefix, groups[j].name)

\* the instance names of a list of groups: group by group, each FETCHERS list in its order
C19_NamesOf(groups) ==
    Flatten([i \in 1..Len(groups) |->
               LET fs == SelectSeq(groups[i].fetchers, LAMBDA f : Has(catalog, f))
               IN  [j \in 1..Len(fs) |-> fs[j] \o <<"_">> \o groups[i].name]])

C19_MultiNames ==
    C19_NamesOf(multi_config.gitlab_projects) \o C19_NamesOf(multi_config.aws_regions)

\* the fetchers of the catalog no group covers, in catalog order
C19_StandardInCatalogOrder ==
    LET covered == UNION {{g.fetchers[j] : j \in 1..Len(g.fetchers)} :
                            g \in {multi_config.gitlab_projects[i] :
                                     i \in 1..Len(multi_config.gitlab_projects)}
                                  \cup {multi_config.aws_regions[i] :
                                          i \in 1..Len(multi_config.aws_regions)}}
        names == [i \in 1..Len(catalog) |-> catalog[i].k]
    IN  SelectSeq(names, LAMBDA f : f \notin covered)

C19_Executed == [i \in 1..Len(ran) |-> ran[i].name]

RECURSIVE C19_FirstOccurrences(_)
\* a sequence without the later repetitions of its elements
C19_FirstOccurrences(q) ==
    IF q = <<>> THEN <<>>
    ELSE LET front == C19_FirstOccurrences(SubSeq(q, 1, Len(q) - 1))
         IN  IF \E i \in 1..Len(front) : front[i] = q[Len(q)] THEN front
             ELSE Append(front, q[Len(q)])

\* what C19 and its amended form share: multiplied instances first, groups in the order
\* the scan met them, each FETCHERS list in its order, then the standard fetchers given;
\* the entries of the summary in the order of execution
C19_Order(standard) ==
    prog = "run_fetchers" /\ pc = "done" /\ written # <<>> =>
        /\ C19_InEnvOrder(GITLAB_PREFIX, multi_config.gitlab_projects)
        /\ C19_InEnvOrder(AWS_PREFIX, multi_config.aws_regions)
        /\ C19_Executed = C19_MultiNames \o standard
        /\ [j \in 1..Len(Entries) |-> Entries[j].name] = C19_FirstOccurrences(C19_Executed)

\* C19 as stated: multiplied instances before standard ones, each category in discovery
\* order, the standard fetchers in catalog order; the summary entries in the same order.
C19_DiscoveryOrder == C19_Order(C19_StandardInCatalogOrder)

\* the standard fetchers in ascending order of their names
C19_StandardSorted ==
    LET std == C19_StandardInCatalogOrder
    IN  [i \in 1..Len(std) |->
           CHOOSE f \in {std[k] : k \in 1..Len(std)} :
              Cardinality({k \in 1..Len(std) : StrLess(std[k], f)}) = i - 1]

\* C19 amended: multiplied instances before standard ones; the GitLab groups, then the
\* AWS groups, each kind in the order the environment scan met them and each FETCHERS
\* list in its order; the standard fetchers in ascending order of name, not in catalog
\* order; the summary entries in the order of execution.
C19_SortedStandardOrder == C19_Order(C19_StandardSorted)

\* a finished run whose two standard fetchers ran in another order than the catalog's
C19_Witness ==
    /\ prog = "run_fetchers" /\ pc = "done" /\ written # <<>>
    /\ Len(Entries) = 2
    /\ C19_Executed = C19_StandardSorted
    /\ C19_StandardInCatalogOrder # C19_StandardSorted

\* the child of a multiplied instance and the instance it runs
C20_Running == prog = "run_fetchers" /\ child # NoChild /\ ~child[1].std

\* the child's environment is the parent's with every entry of the binding added, the
\* binding's value winning
C20_ChildEnvironment ==
    LET c == child[1]
        config == instances[idx].config
    IN  /\ Keys(c.envp) = Keys(env) \cup Keys(config)
        /\ \A key \in Keys(config) : Get(c.envp, key) = Get(config, key)
        /\ \A key \in Keys(env) \ Keys(config) : Get(c.envp, key) = Get(env, key)

\* C20 as stated: the child of a multiplied instance gets the four arguments (profile,
\* region, evidence directory, /dev/null), profile and region being those of the
\* instance's binding (empty for a binding that has none), and the parent's environment
\* overridden by the binding's entries.
C20_ArgsFromBinding ==
    C20_Running =>
        /\ child[1].argv =
              << GetOr(instances[idx].config, <<"AWS", "_", "PROFILE">>, EmptyStr),
                 GetOr(instances[idx].config, <<"AWS", "_", "REGION">>, EmptyStr),
                 <<"<evidence_dir>">>, <<"/dev/null">> >>
        /\ C20_ChildEnvironment

\* C20 amended: as stated for an AWS instance; the child of a GitLab instance, whose
\* binding has neither profile nor region, gets the parent's AWS_PROFILE and
\* AWS_DEFAULT_REGION (empty when unset) for its first two arguments.
C20_ArgsFromBindingOrAmbient ==
    C20_Running =>
        /\ child[1].argv =
              IF instances[idx].provider = "aws"
              THEN << Get(instances[idx].config, <<"AWS", "_", "PROFILE">>),
                      Get(instances[idx].config, <<"AWS", "_", "REGION">>),
                      <<"<evidence_dir>">>, <<"/dev/null">> >>
              ELSE << GetOr(env, <<"AWS", "_", "PROFILE">>, EmptyStr),
                      GetOr(env, <<"AWS", "_", "DEFAULT", "_", "REGION">>, EmptyStr),
                      <<"<evidence_dir>">>, <<"/dev/null">> >>
        /\ C20_ChildEnvironment

\* the child of an AWS instance whose binding's profile displaces the parent's AWS_PROFILE
C20_Witness ==
    /\ C20_Running
    /\ instances[idx].provider = "aws"
    /\ Has(env, <<"AWS", "_", "PROFILE">>)
    /\ Get(child[1].envp, <<"AWS", "_", "PROFILE">>) # Get(env, <<"AWS", "_", "PROFILE">>)
    /\ child[1].argv[1] = Get(instances[idx].config, <<"AWS", "_", "PROFILE">>)

\* name, script and provider of the instances a list of groups must give: one per
\* element of each FETCHERS list that the catalog holds
C21_Emitted(groups, provider) ==
    Flatten([i \in 1..Len(groups) |->
               LET fs == SelectSeq(groups[i].fetchers, LAMBDA f : Has(catalog, f))
               IN  [j \in 1..Len(fs) |-> <<fs[j] \o <<"_">> \o groups[i].name, fs[j], provider>>]])

\* the names of the groups of a pattern that have every mandatory key
C21_ValidGroups(prefix, mandatory, kind) ==
    LET groups == ScanGroups(prefix, env, Len(env))
    IN  {<<kind, "_">> \o groups[i].k : i \in 1..Len(groups)}
        \ {<<kind, "_">> \o num : num \in C4_Incomplete(prefix, mandatory)}

\* C21: the expansion gives, for each valid group and each name of its FETCHERS list,
\* one instance <fetcher>_project_<n> or <fetcher>_region_<n> if and only if the catalog
\* holds the name; the other names give nothing and no error.
C21_InstancePerCatalogName ==
    pc = "confirm" =>
        /\ {multi_config.gitlab_projects[i].name : i \in 1..Len(multi_config.gitlab_projects)}
              = C21_ValidGroups(GITLAB_PREFIX, GITLAB_MANDATORY, "project")
        /\ {multi_config.aws_regions[i].name : i \in 1..Len(multi_config.aws_regions)}
              = C21_ValidGroups(AWS_PREFIX, AWS_MANDATORY, "region")
        /\ [i \in 1..Len(instances) |->
              <<instances[i].instance_name, instances[i].script_name, instances[i].provider>>]
              = C21_Emitted(multi_config.gitlab_projects, "gitlab")
                \o C21_Emitted(multi_config.aws_regions, "aws")
        /\ \A i \in 1..Len(instances) : Has(catalog, instances[i].script_name)

\* a valid group whose list names a fetcher of the catalog and one the catalog lacks
C21_Witness ==
    /\ pc = "confirm"
    /\ \E i \in 1..Len(multi_config.aws_regions) :
          LET g == multi_config.aws_regions[i] IN
          /\ Len(g.fetchers) = 2
          /\ Has(catalog, g.fetchers[1]) /\ ~Has(catalog, g.fetchers[2])
          /\ \E j \in 1..Len(instances) :
                instances[j].instance_name = g.fetchers[1] \o <<"_">> \o g.name
          /\ \A j \in 1..Len(instances) : instances[j].script_name # g.fetchers[2]

\* the flags <FETCHERNAME>_FETCHER gives the fetcher a running child executes
C22_Flags == words(GetOr(env, upper(child[1].script) \o <<"_", "FETCHER">>, EmptyStr))

\* C22: whenever <FETCHERNAME>_FETCHER is set, its space-separated flags follow the four
\* positional arguments of every child of that fetcher, standard or multiplied.
C22_FlagsAppended ==
    (prog = "run_fetchers" /\ child # NoChild
       /\ Has(env, upper(child[1].script) \o <<"_", "FETCHER">>)) =>
        /\ Len(child[1].argv) >= 4 + Len(C22_Flags)
        /\ SubSeq(child[1].argv, 5, 4 + Len(C22_Flags)) = C22_Flags

\* a child process is started by this step
C23_Starts == child' # child /\ child' # NoChild

\* C23: at most one fetcher child runs at any point of a run, and a child is started only
\* when no child is running and every earlier entry of the work list has its outcome
\* recorded (exit, timeout, or a launch that failed).
C23_StrictlySequential ==
    /\ [](Len(child) <= 1)
    /\ [][C23_Starts =>
            /\ child = NoChild
            /\ Len(ran) = idx - 1
            /\ \A i \in 1..Len(ran) :
                  ran[i].outcome \in {"exit0", "exitN", "timeout", "missing", "oserror"}]_vars

\* a child running after the previous entry's child was timed out
C23_Witness ==
    /\ prog = "run_fetchers" /\ child # NoChild
    /\ Len(ran) = idx - 1 /\ idx >= 2
    /\ ran[idx - 1].outcome = "timeout"

\* variables i and j of the environment assign the same key of the same group
C24_SameSlot(prefix, i, j) ==
    LET mi == GroupMatch(prefix, env[i].k)
        mj == GroupMatch(prefix, env[j].k)
    IN  mi.ok /\ mj.ok /\ mi.num = mj.num /\ lower(mi.key) = lower(mj.key)

\* variable i is overwritten by one read later in the scan
C24_Shadowed(i) ==
    \E prefix \in {GITLAB_PREFIX, AWS_PREFIX} :
        \E j \in (i+1)..Len(env) : C24_SameSlot(prefix, i, j)

RECURSIVE C24_SingleUpTo(_)
\* the first i variables of the environment without the overwritten ones
C24_SingleUpTo(i) ==
    IF i = 0 THEN <<>>
    ELSE IF C24_Shadowed(i) THEN C24_SingleUpTo(i - 1)
         ELSE Append(C24_SingleUpTo(i - 1), env[i])

\* the names of the instances an environment expands to
C24_Names(e) ==
    LET insts == create_fetcher_instances(catalog, parse_multi_instance_config(e))
    IN  [i \in 1..Len(insts) |-> insts[i].instance_name]

\* C24: of two variables that assign the same key of the same group (names differing
\* in the letter case of the key part), the one read last gives the group's value, and
\* the expansion has the instances it has with that assignment alone.
C24_LastWriteWins ==
    pc = "confirm" =>
        /\ \A prefix \in {GITLAB_PREFIX, AWS_PREFIX} :
             LET groups == ScanGroups(prefix, env, Len(env)) IN
             \A i \in 1..Len(env) :
                LET m == GroupMatch(prefix, env[i].k) IN
                (m.ok /\ ~C24_Shadowed(i)) =>
                    /\ Has(groups, m.num)
                    /\ Get(Get(groups, m.num), lower(m.key)) = env[i].v
        /\ LET single == C24_Names(C24_SingleUpTo(Len(env))) IN
           /\ Len(instances) = Len(single)
           /\ {instances[i].instance_name : i \in 1..Len(instances)}
                 = {single[i] : i \in 1..Len(single)}

\* FETCHERS=a read before fetchers=b for one region: the instance is b's, and a has none
C24_Witness ==
    /\ pc = "confirm"
    /\ \E i, j \in 1..Len(env) :
          /\ i < j /\ C24_SameSlot(AWS_PREFIX, i, j)
          /\ env[i].v = <<"a">> /\ env[j].v = <<"b">>
    /\ Has(catalog, <<"a">>) /\ Has(catalog, <<"b">>)
    /\ \E i \in 1..Len(instances) : instances[i].instance_name = <<"b", "_", "region", "_", "1">>
    /\ \A i \in 1..Len(instances) : instances[i].instance_name # <<"a", "_", "region", "_", "1">>

\* the fetchers the FETCHERS lists of a list of groups name
C25_NamedBy(groups) ==
    UNION {{groups[i].fetchers[j] : j \in 1..Len(groups[i].fetchers)} : i \in 1..Len(groups)}

\* the fetchers a valid group names
C25_NamedByValid ==
    C25_NamedBy(multi_config.gitlab_projects) \cup C25_NamedBy(multi_config.aws_regions)

\* the fetchers an incomplete GitLab group names
C25_NamedByDropped ==
    LET groups == ScanGroups(GITLAB_PREFIX, env, Len(env))
    IN  UNION {LET l == FetcherList(Get(groups[i].v, <<"fetchers">>))
               IN  {l[j] : j \in 1..Len(l)} :
               i \in {h \in 1..Len(groups) :
                        /\ Has(groups[h].v, <<"fetchers">>)
                        /\ ~(GITLAB_MANDATORY \subseteq Keys(groups[h].v))}}

\* the work list once the configuration is expanded: a catalog fetcher is standard, once,
\* if and only if no emitted instance names it; the records of a finished run hold each
\* standard fetcher once
C25_StandardWorkList ==
    (prog = "run_fetchers" /\ (pc = "confirm" \/ idx >= 1)) =>
        /\ {uncovered[i] : i \in 1..Len(uncovered)}
              = Keys(catalog) \ {instances[i].script_name : i \in 1..Len(instances)}
        /\ Cardinality({uncovered[i] : i \in 1..Len(uncovered)}) = Len(uncovered)
        /\ \A f \in Keys(catalog) :
              /\ f \in C25_NamedByValid => \A i \in 1..Len(uncovered) : uncovered[i] # f
              /\ (f \in C25_NamedByDropped /\ f \notin C25_NamedByValid) =>
                    \E i \in 1..Len(uncovered) : uncovered[i] = f
        /\ (pc = "done" /\ idx >= 1) =>
              \A i \in 1..Len(uncovered) :
                 Cardinality({h \in 1..Len(ran) : ran[h].name = uncovered[i]}) = 1

\* the child of a standard fetcher
C25_StandardChild == prog = "run_fetchers" /\ child # NoChild /\ child[1].std

\* C25 as stated: a catalog fetcher runs as an unbound instance named <fetcherName>, with
\* the ambient AWS_PROFILE and AWS_DEFAULT_REGION for profile and region, if and only if
\* no emitted instance names it; one that only dropped groups name runs once as standard,
\* one that a valid group names never runs unbound.
C25_StandardAmbient ==
    /\ C25_StandardWorkList
    /\ C25_StandardChild =>
          /\ child[1].name = uncovered[idx - Len(instances)]
          /\ child[1].script = child[1].name
          /\ child[1].argv[1] = GetOr(env, <<"AWS", "_", "PROFILE">>, EmptyStr)
          /\ child[1].argv[2] = GetOr(env, <<"AWS", "_", "DEFAULT", "_", "REGION">>, EmptyStr)

\* C25 amended: as stated, but the region is AWS_DEFAULT_REGION only when that variable
\* is set and not empty; otherwise it is what "aws configure get region" answers for
\* the profile (empty when it answers nothing).
C25_StandardAmbientOrCli ==
    /\ C25_StandardWorkList
    /\ C25_StandardChild =>
          /\ child[1].name = uncovered[idx - Len(instances)]
          /\ child[1].script = child[1].name
          /\ child[1].argv[1] = GetOr(env, <<"AWS", "_", "PROFILE">>, EmptyStr)
          /\ IF GetOr(env, <<"AWS", "_", "DEFAULT", "_", "REGION">>, EmptyStr) # EmptyStr
             THEN child[1].argv[2] = Get(env, <<"AWS", "_", "DEFAULT", "_", "REGION">>)
             ELSE child[1].argv[2] \in CliRegions

\* a fetcher that only a dropped group names runs as a standard instance, its region
\* the AWS CLI's because AWS_DEFAULT_REGION is unset
C25_Witness ==
    /\ C25_StandardChild
    /\ child[1].name \in C25_NamedByDropped
    /\ child[1].name \notin C25_NamedByValid
    /\ ~Has(env, <<"AWS", "_", "DEFAULT", "_", "REGION">>)
    /\ child[1].argv[2] = <<"cli-region">>

\* the group the running multiplied instance was made from
C26_Group ==
    LET groups == IF instances[idx].provider = "gitlab" THEN multi_config.gitlab_projects
                  ELSE multi_config.aws_regions
    IN  groups[CHOOSE i \in 1..Len(groups) :
                  instances[idx].instance_name
                     = instances[idx].script_name \o <<"_">> \o groups[i].name]

\* what the variables of the group give for the child's binding variables
C26_Binding ==
    IF instances[idx].provider = "gitlab"
    THEN << [k |-> <<"GITLAB", "_", "URL">>, v |-> C26_Group.url],
            [k |-> <<"GITLAB", "_", "API", "_", "TOKEN">>, v |-> C26_Group.token],
            [k |-> <<"GITLAB", "_", "PROJECT", "_", "ID">>, v |-> C26_Group.project_id] >>
    ELSE << [k |-> <<"AWS", "_", "PROFILE">>, v |-> C26_Group.profile],
            [k |-> <<"AWS", "_", "REGION">>, v |-> C26_Group.region] >>

\* C26: every non-mandatory key K of a group reaches the child as GITLAB_<K> or AWS_<K>,
\* and the child's GITLAB_URL, GITLAB_API_TOKEN and GITLAB_PROJECT_ID (AWS_PROFILE and
\* AWS_REGION) equal the group's url, api_access_token and id (profile and region)
\* whatever extra keys the group has.
C26_ExtrasKeepBinding ==
    C20_Running =>
        /\ \A i \in 1..Len(C26_Group.config) :
              Get(child[1].envp,
                  (IF instances[idx].provider = "gitlab" THEN <<"GITLAB", "_">>
                   ELSE <<"AWS", "_">>) \o upper(C26_Group.config[i].k))
                 = C26_Group.config[i].v
        /\ \A i \in 1..Len(C26_Binding) :
              Get(child[1].envp, C26_Binding[i].k) = C26_Binding[i].v

\* the number of entries of a summary whose status is among the given ones
C27_Count(s, statuses) ==
    Cardinality({i \in 1..Len(s.results) : s.results[i].status \in statuses})

\* C27: in every summary create_summary_file writes, successful_scripts + failed_scripts =
\* total_scripts = the number of entries, successful_scripts is the number of PASS
\* entries and failed_scripts the number of the other entries.
C27_CountsConsistent ==
    prog = "run_fetchers" =>
        \A h \in 1..Len(written) :
            LET s == written[h] IN
            /\ s.successful_scripts + s.failed_scripts = s.total_scripts
            /\ s.total_scripts = Len(s.results)
            /\ s.successful_scripts = C27_Count(s, {"PASS"})
            /\ s.failed_scripts = Len(s.results) - C27_Count(s, {"PASS"})

\* a summary with a PASS entry and a FAIL entry
C27_Witness ==
    /\ prog = "run_fetchers" /\ written # <<>>
    /\ written[1].total_scripts = 2
    /\ written[1].successful_scripts = 1 /\ written[1].failed_scripts = 1
    /\ \E i, j \in 1..Len(written[1].results) :
          written[1].results[i].status = "PASS" /\ written[1].results[j].status = "FAIL"

\* a child's environment holds, for every variable, the parent's value or the value of
\* the binding of the instance the child runs
C28_ChildSeesOwnBindingOnly ==
    (prog = "run_fetchers" /\ child # NoChild) =>
        LET own == IF child[1].std THEN <<>> ELSE instances[idx].config IN
        \A key \in Keys(child[1].envp) :
            \/ Has(own, key) /\ Get(child[1].envp, key) = Get(own, key)
            \/ ~Has(own, key) /\ Has(env, key) /\ Get(child[1].envp, key) = Get(env, key)

\* C28: running a multiplied instance leaves the orchestrator's environment as it was
\* (whether the child exits, fails or is timed out), so no later child sees an earlier
\* instance's binding values unless the parent's environment already held them.
C28_ParentEnvironmentKept ==
    /\ [][prog = "run_fetchers" => env' = env]_vars
    /\ [](C28_ChildSeesOwnBindingOnly)

\* the child of a later instance, run after a GitLab instance was timed out, without the
\* GitLab binding in its environment
C28_Witness ==
    /\ prog = "run_fetchers" /\ child # NoChild /\ idx = 2 /\ Len(ran) = 1
    /\ Len(instances) >= 2
    /\ instances[1].provider = "gitlab"
    /\ ran[1].name = instances[1].instance_name /\ ran[1].outcome = "timeout"
    /\ \A key \in Keys(instances[1].config) : ~Has(child[1].envp, key)

\* the entries the uploader does not skip: "if not evidence_file" is false for them
C29_Uploaded == {j \in 1..Len(Entries) : Entries[j].evidence_file \notin {PyNone, EmptyStr}}

\* C29: in every summary an orchestrator writes, an entry has an evidence_file only if its
\* status is PASS, and the evidence_file is then the path of a .json file of the evidence
\* directory; the uploader therefore uploads nothing for an entry that is not PASS.
C29_OnlyPassCarriesEvidence ==
    written # <<>> =>
        \A j \in C29_Uploaded :
            /\ Entries[j].status = "PASS"
            /\ \E i \in 1..Len(files) :
                  files[i] # SUMMARY_STEM /\ Entries[j].evidence_file = EvidencePath(files[i])

\* nothing of a run has happened: no evidence directory, no child started, no summary
C30_NoSideEffect ==
    /\ ~dirCreated /\ child = NoChild /\ ran = <<>> /\ written = <<>>
    /\ \A i \in 1..Len(files) : files[i] # SUMMARY_STEM

\* the step the prompt's answer gives
C30_Answered(answer) == \E cli \in CliRegions : RF_ConfirmWith(answer, cli)

\* main() returns at once
C30_Returns == pc' = "done" /\ idx' = 0

\* C30 as stated: if the prerequisites check fails or the user answers anything other
\* than 'y', no evidence directory is created, no child is started and no summary.json
\* is written.
C30_NothingUnlessY ==
    /\ [](prog = "run_fetchers" /\ idx = 0 => C30_NoSideEffect)
    /\ [][RF_LoadWith(FALSE) => C30_Returns]_vars
    /\ [][\A answer \in Answers \ {<<"y">>} : C30_Answered(answer) => C30_Returns]_vars

\* C30 amended: as stated for every answer that is not 'y' once its surrounding white
\* space is stripped and its letters are lower-cased; 'Y' and ' y ' confirm the run.
C30_NothingUnlessYNormalised ==
    /\ [](prog = "run_fetchers" /\ idx = 0 => C30_NoSideEffect)
    /\ [][RF_LoadWith(FALSE) => C30_Returns]_vars
    /\ [][\A answer \in {a \in Answers : lower(strip(a)) # <<"y">>} :
            C30_Answered(answer) => C30_Returns]_vars

\* a run that expanded its configuration and was declined at the prompt
C30_Witness ==
    /\ prog = "run_fetchers" /\ pc = "done" /\ idx = 0
    /\ instances # <<>>
    /\ C30_NoSideEffect

==========================================================================
